---- MODULE Spec2Model ----
(***************************************************************************)
(* Model of app.py, the Streamlit chat relay for the ISFE2 Assistant.      *)
(*                                                                         *)
(* The script is rerun top to bottom on every visitor interaction.  A      *)
(* script run is modelled per visitor session; it is cut at every remote   *)
(* call made inside ask_assistant, so that the remote service (threads,    *)
(* messages, runs) and the other session can move between two calls.       *)
(* The part of a script run before ask_assistant holds at most one remote  *)
(* call (create-thread) and is one step.  A script run is not interrupted: *)
(* the page takes the next interaction when the run has ended (pc "idle"). *)
(*                                                                         *)
(* pc: "closed" (the visitor never opens the page), "idle" (no script run  *)
(* in progress), "create_message", "create_run", "poll", "list" (the       *)
(* remote call ask_assistant makes next).                                  *)
(*                                                                         *)
(* The remote service is the environment: every call may raise, a run      *)
(* moves through the statuses on its own, and a run that ends may have     *)
(* added one assistant message of any shape to its thread.                 *)
(*                                                                         *)
(* A "string" is a sequence of tokens: configuration values are sequences  *)
(* of characters, displayed texts are sequences of text fragments.  The    *)
(* dash of the two literals of lines 120 and 140 is written "-" and the    *)
(* backquote of line 145 is written as an apostrophe.                      *)
(***************************************************************************)
EXTENDS Integers, Sequences, FiniteSets, TLC

VARIABLES
    secrets,    \* st.secrets: key -> value or None
    environ,    \* os.environ after load_dotenv: key -> value or None
    thread_id,  \* st.session_state.thread_id per session (NoThread: key absent)
    history,    \* st.session_state.history per session (Absent: key absent)
    pc,         \* position of the session's script run
    prompt,     \* the prompt of the latest question
    run,        \* run.id held by ask_assistant for the latest question
    polled,     \* statuses retrieve-run returned for it, repeats merged
    answer,     \* string ask_assistant returned for it (shown in the placeholder)
    screen,     \* what the last script run rendered
    listing,    \* msgs.data list-messages returned for it
    before,     \* history at the moment it was submitted
    fault,      \* the remote call that raised while it was handled, if any
    calls,      \* the remote calls ask_assistant made for it, in order, a
                \* retrieve-run repeated by the loop merged with the one before
    ncreate,    \* create-thread calls since the session state was last empty
    used,       \* thread ids named in create-message/create-run calls since then
    nthreads,   \* remote: number of threads created
    messages,   \* remote: thread -> messages, oldest first
    runs,       \* remote: run id -> [thread, status]
    asked       \* number of questions submitted so far, all sessions

vars == <<secrets, environ, thread_id, history, pc, prompt, run, polled,
          answer, screen, listing, before, fault, calls, ncreate, used,
          nthreads, messages, runs, asked>>

cycle == <<run, polled, listing>>

NoFault == [call |-> "none", error |-> "none"]

remote == <<nthreads, messages, runs>>

config == <<secrets, environ>>

----------------------------------------------------------------------------
(* Bounds *)

\* Threads the remote service creates; beyond it create-thread raises
MaxThreads == 2
\* Questions submitted in one behaviour
MaxQuestions == 2
\* Value at which the count of create-thread calls stops growing
CallCap == 2

Sessions == {1, 2}

\* The sessions whose visitor opens the page
Visitors == {1}

----------------------------------------------------------------------------
(* Values *)

None == <<"None">>

\* The relay never inspects a question beyond its truth value: the k-th
\* question submitted is the k-th text of this list
QuestionTexts == <<"q1", "q2", "q3", "q4">>

Questions == {QuestionTexts[k] : k \in 1..Len(QuestionTexts)}

NoPrompt == ""

Errors == {"timeout"}

KeyGood == <<"s", "k", "-", "1">>
KeyBlank == <<" ", " ">>
AsstPlain == <<"a", "s", "s", "t", "_", "9">>
AsstPlainPadded == <<" ", "a", "s", "s", "t", "_", "9", " ">>
AsstProj == <<"a", "s", "s", "t", "_", "p", "r", "o", "j", "_", "9">>
AsstProjPadded == <<" ", "a", "s", "s", "t", "_", "p", "r", "o", "j", "_", "9">>
ProjPrefix == <<"a", "s", "s", "t", "_", "p", "r", "o", "j", "_">>

Cfg(sk, ek, sa, ea) ==
    [secrets |-> [OPENAI_API_KEY |-> sk, ASSISTANT_ID |-> sa],
     environ |-> [OPENAI_API_KEY |-> ek, ASSISTANT_ID |-> ea]]

Configs ==
    { Cfg(None, None, None, None),
      Cfg(KeyGood, None, None, None),
      Cfg(None, None, AsstPlain, None),
      Cfg(KeyBlank, KeyGood, AsstPlain, None),
      Cfg(KeyGood, None, AsstProj, None),
      Cfg(None, KeyGood, <<>>, AsstProjPadded),
      Cfg(KeyGood, None, KeyBlank, AsstPlain),
      Cfg(<<>>, KeyGood, AsstPlainPadded, None) }

----------------------------------------------------------------------------
(* Configuration: get_secret and the two guards *)

Whitespace == {" ", "\t", "\n"}

RECURSIVE LStrip(_)
LStrip(s) ==
    IF s # <<>> /\ Head(s) \in Whitespace THEN LStrip(Tail(s)) ELSE s

RECURSIVE RStrip(_)
RStrip(s) ==
    IF s # <<>> /\ s[Len(s)] \in Whitespace
    THEN RStrip(SubSeq(s, 1, Len(s) - 1))
    ELSE s

Strip(s) == RStrip(LStrip(s))

Truthy(v) == v # None /\ v # <<>>

\* Mutant of get_secret: the value is returned as read, not stripped
get_secret_NotStripped(name) ==
    IF Truthy(secrets[name]) THEN secrets[name] ELSE environ[name]

get_secret(name) ==
    LET val == IF Truthy(secrets[name]) THEN secrets[name] ELSE environ[name]
    IN  IF val # None THEN Strip(val) ELSE val

API_KEY == get_secret("OPENAI_API_KEY")
ASSISTANT_ID == get_secret("ASSISTANT_ID")

StartsWith(s, p) == Len(s) >= Len(p) /\ SubSeq(s, 1, Len(p)) = p

MissingConfig == ~Truthy(API_KEY) \/ ~Truthy(ASSISTANT_ID)

ProjectScoped == StartsWith(ASSISTANT_ID, ProjPrefix)

ConfigOk == ~MissingConfig /\ ~ProjectScoped

----------------------------------------------------------------------------
(* Remote assistant service: threads, messages, runs *)

NoThread == 0
NoRun == 0
\* The value standing for a history key that is not in st.session_state
Absent == << <<"absent", <<>>>> >>

\* The value standing for "list-messages has returned nothing yet"
NotListed == <<[role |-> "none", content |-> <<>>]>>

Text(v) == [type |-> "text", value |-> v]
Image == [type |-> "image_file", value |-> "img"]

ContentShapes == { <<Image>>, <<Text("a"), Image, Text("b")>> }

Message(role, content) == [role |-> role, content |-> content]

Statuses == {"queued", "in_progress", "requires_action", "completed",
             "failed", "cancelled", "expired"}

NextStatus(st) ==
    CASE st = "queued" -> {"in_progress", "failed", "cancelled", "expired"}
      [] st = "in_progress" -> {"requires_action", "completed", "failed",
                                 "cancelled", "expired"}
      [] st = "requires_action" -> {"cancelled", "expired"}
      [] OTHER -> {}

RemoteTerminal(st) == NextStatus(st) = {}

ListLimit == 10

RECURSIVE Reverse(_)
Reverse(s) == IF s = <<>> THEN <<>> ELSE Append(Reverse(Tail(s)), Head(s))

Take(s, n) == SubSeq(s, 1, IF Len(s) < n THEN Len(s) ELSE n)

MessagesList(t) == Take(Reverse(messages[t]), ListLimit)

----------------------------------------------------------------------------
(* Reply extraction *)

Separator == "\n\n"

NoReply == <<"No reply received - please try again.">>

RECURSIVE TextParts(_)
TextParts(content) ==
    IF content = <<>> THEN <<>>
    ELSE IF Head(content).type = "text"
         THEN <<Head(content).value>> \o TextParts(Tail(content))
         ELSE TextParts(Tail(content))

RECURSIVE Join(_)
Join(parts) ==
    IF Len(parts) <= 1 THEN parts
    ELSE <<Head(parts), Separator>> \o Join(Tail(parts))

\* Mutant of latest_assistant_reply: without an assistant text the joined
\* (empty) parts are returned instead of the sentinel
RECURSIVE reply_EmptyWhenNone(_)
reply_EmptyWhenNone(msgs) ==
    IF msgs = <<>> THEN <<>>
    ELSE LET m == Head(msgs)
             parts == TextParts(m.content)
         IN  IF m.role = "assistant" /\ parts # <<>>
             THEN Join(parts)
             ELSE reply_EmptyWhenNone(Tail(msgs))

RECURSIVE latest_assistant_reply(_)
latest_assistant_reply(msgs) ==
    IF msgs = <<>> THEN NoReply
    ELSE LET m == Head(msgs)
             parts == TextParts(m.content)
         IN  IF m.role = "assistant" /\ parts # <<>>
             THEN Join(parts)
             ELSE latest_assistant_reply(Tail(msgs))

RunFailurePrefix == "Sorry-assistant run ended with status: **"
TransportPrefix == "Error talking to assistant: '"

RunFailureText(st) == <<RunFailurePrefix, st, "**.">>
TransportErrorText(e) == <<TransportPrefix, e, "'">>

----------------------------------------------------------------------------
(* Initial state: nothing loaded yet, no remote object exists *)

Init ==
    /\ \E c \in Configs : secrets = c.secrets /\ environ = c.environ
    /\ thread_id = [s \in Sessions |-> NoThread]
    /\ history = [s \in Sessions |-> Absent]
    /\ pc = [s \in Sessions |-> IF s \in Visitors THEN "idle" ELSE "closed"]
    /\ prompt = [s \in Sessions |-> NoPrompt]
    /\ run = [s \in Sessions |-> NoRun]
    /\ polled = [s \in Sessions |-> <<>>]
    /\ answer = [s \in Sessions |-> None]
    /\ screen = [s \in Sessions |-> "blank"]
    /\ listing = [s \in Sessions |-> NotListed]
    /\ before = [s \in Sessions |-> Absent]
    /\ fault = [s \in Sessions |-> NoFault]
    /\ calls = [s \in Sessions |-> <<>>]
    /\ ncreate = [s \in Sessions |-> 0]
    /\ used = [s \in Sessions |-> {}]
    /\ nthreads = 0
    /\ messages = [t \in 1..MaxThreads |-> <<>>]
    /\ runs = <<>>
    /\ asked = 0

----------------------------------------------------------------------------
(* One run of the script up to the call of ask_assistant (lines 10-164) *)

Bump(n) == IF n < CallCap THEN n + 1 ELSE n

\* Mutant of ThreadMissing: a thread is created on every script run
ThreadMissing_Always(tid) == tid = tid

\* if "thread_id" not in st.session_state (line 98)
ThreadMissing(tid) == tid = NoThread

\* Mutant of Script: the reset leaves thread_id in the session state
Script_ResetKeepsThread(s, clicked, p, ok) ==
    LET cleared == clicked /\ ConfigOk
        tid0 == thread_id[s]
        hist0 == IF cleared THEN Absent ELSE history[s]
        p0 == IF cleared THEN NoPrompt ELSE p
        nc0 == IF cleared THEN 0 ELSE ncreate[s]
        used0 == IF cleared THEN {} ELSE used[s]
        creating == ConfigOk /\ ThreadMissing(tid0)
        created == creating /\ ok
        tid1 == IF created THEN nthreads + 1 ELSE tid0
        hist1 == IF created THEN <<>> ELSE hist0
        stopped == ~ConfigOk \/ (creating /\ ~ok)
        asking == ~stopped /\ p0 # NoPrompt
    IN  /\ ok \in BOOLEAN
        /\ creating /\ ok => nthreads < MaxThreads  \* beyond it the call fails
        /\ ~creating => ok
        /\ thread_id' = [thread_id EXCEPT ![s] = tid1]
        /\ nthreads' = IF created THEN nthreads + 1 ELSE nthreads
        /\ ncreate' = [ncreate EXCEPT ![s] = IF creating THEN Bump(nc0) ELSE nc0]
        /\ used' = [used EXCEPT ![s] = used0]
        /\ history' = [history EXCEPT ![s] =
                          IF asking THEN Append(hist1, <<"user", <<p0>>>>)
                          ELSE hist1]
        /\ pc' = [pc EXCEPT ![s] = IF asking THEN "create_message" ELSE "idle"]
        /\ screen' = [screen EXCEPT ![s] =
                          IF MissingConfig \/ ProjectScoped THEN "config_error"
                          ELSE IF stopped THEN "thread_error"
                          ELSE "chat"]
        /\ IF asking \/ cleared
           THEN /\ prompt' = [prompt EXCEPT ![s] = p0]
                /\ before' = [before EXCEPT ![s] = hist1]
                /\ answer' = [answer EXCEPT ![s] = None]
                /\ listing' = [listing EXCEPT ![s] = NotListed]
                /\ run' = [run EXCEPT ![s] = NoRun]
                /\ polled' = [polled EXCEPT ![s] = <<>>]
                /\ fault' = [fault EXCEPT ![s] = NoFault]
                /\ calls' = [calls EXCEPT ![s] = <<>>]
           ELSE UNCHANGED <<prompt, before, answer, listing, run, polled, fault,
                            calls>>
        /\ asked' = IF asking THEN asked + 1 ELSE asked
        /\ UNCHANGED <<config, messages, runs>>

\* Mutant of Script: ensure_thread sets the empty history before it calls
\* create-thread
Script_HistoryBeforeThread(s, clicked, p, ok) ==
    LET cleared == clicked /\ ConfigOk
        tid0 == IF cleared THEN NoThread ELSE thread_id[s]
        hist0 == IF cleared THEN Absent ELSE history[s]
        p0 == IF cleared THEN NoPrompt ELSE p
        nc0 == IF cleared THEN 0 ELSE ncreate[s]
        used0 == IF cleared THEN {} ELSE used[s]
        creating == ConfigOk /\ ThreadMissing(tid0)
        created == creating /\ ok
        tid1 == IF created THEN nthreads + 1 ELSE tid0
        hist1 == IF creating THEN <<>> ELSE hist0
        stopped == ~ConfigOk \/ (creating /\ ~ok)
        asking == ~stopped /\ p0 # NoPrompt
    IN  /\ ok \in BOOLEAN
        /\ creating /\ ok => nthreads < MaxThreads  \* beyond it the call fails
        /\ ~creating => ok
        /\ thread_id' = [thread_id EXCEPT ![s] = tid1]
        /\ nthreads' = IF created THEN nthreads + 1 ELSE nthreads
        /\ ncreate' = [ncreate EXCEPT ![s] = IF creating THEN Bump(nc0) ELSE nc0]
        /\ used' = [used EXCEPT ![s] = used0]
        /\ history' = [history EXCEPT ![s] =
                          IF asking THEN Append(hist1, <<"user", <<p0>>>>)
                          ELSE hist1]
        /\ pc' = [pc EXCEPT ![s] = IF asking THEN "create_message" ELSE "idle"]
        /\ screen' = [screen EXCEPT ![s] =
                          IF MissingConfig \/ ProjectScoped THEN "config_error"
                          ELSE IF stopped THEN "thread_error"
                          ELSE "chat"]
        /\ IF asking \/ cleared
           THEN /\ prompt' = [prompt EXCEPT ![s] = p0]
                /\ before' = [before EXCEPT ![s] = hist1]
                /\ answer' = [answer EXCEPT ![s] = None]
                /\ listing' = [listing EXCEPT ![s] = NotListed]
                /\ run' = [run EXCEPT ![s] = NoRun]
                /\ polled' = [polled EXCEPT ![s] = <<>>]
                /\ fault' = [fault EXCEPT ![s] = NoFault]
                /\ calls' = [calls EXCEPT ![s] = <<>>]
           ELSE UNCHANGED <<prompt, before, answer, listing, run, polled, fault,
                            calls>>
        /\ asked' = IF asking THEN asked + 1 ELSE asked
        /\ UNCHANGED <<config, messages, runs>>

\* clicked: the "Reset chat" button was pressed; p: the submitted prompt;
\* ok: outcome of create-thread, should ensure_thread call it.
Script(s, clicked, p, ok) ==
    LET cleared == clicked /\ ConfigOk
        tid0 == IF cleared THEN NoThread ELSE thread_id[s]
        hist0 == IF cleared THEN Absent ELSE history[s]
        p0 == IF cleared THEN NoPrompt ELSE p
        nc0 == IF cleared THEN 0 ELSE ncreate[s]
        used0 == IF cleared THEN {} ELSE used[s]
        creating == ConfigOk /\ ThreadMissing(tid0)
        created == creating /\ ok
        tid1 == IF created THEN nthreads + 1 ELSE tid0
        hist1 == IF created THEN <<>> ELSE hist0
        stopped == ~ConfigOk \/ (creating /\ ~ok)
        asking == ~stopped /\ p0 # NoPrompt
    IN  /\ ok \in BOOLEAN
        /\ creating /\ ok => nthreads < MaxThreads  \* beyond it the call fails
        /\ ~creating => ok
        /\ thread_id' = [thread_id EXCEPT ![s] = tid1]
        /\ nthreads' = IF created THEN nthreads + 1 ELSE nthreads
        /\ ncreate' = [ncreate EXCEPT ![s] = IF creating THEN Bump(nc0) ELSE nc0]
        /\ used' = [used EXCEPT ![s] = used0]
        /\ history' = [history EXCEPT ![s] =
                          IF asking THEN Append(hist1, <<"user", <<p0>>>>)
                          ELSE hist1]
        /\ pc' = [pc EXCEPT ![s] = IF asking THEN "create_message" ELSE "idle"]
        /\ screen' = [screen EXCEPT ![s] =
                          IF MissingConfig \/ ProjectScoped THEN "config_error"
                          ELSE IF stopped THEN "thread_error"
                          ELSE "chat"]
        /\ IF asking \/ cleared
           THEN /\ prompt' = [prompt EXCEPT ![s] = p0]
                /\ before' = [before EXCEPT ![s] = hist1]
                /\ answer' = [answer EXCEPT ![s] = None]
                /\ listing' = [listing EXCEPT ![s] = NotListed]
                /\ run' = [run EXCEPT ![s] = NoRun]
                /\ polled' = [polled EXCEPT ![s] = <<>>]
                /\ fault' = [fault EXCEPT ![s] = NoFault]
                /\ calls' = [calls EXCEPT ![s] = <<>>]
           ELSE UNCHANGED <<prompt, before, answer, listing, run, polled, fault,
                            calls>>
        /\ asked' = IF asking THEN asked + 1 ELSE asked
        /\ UNCHANGED <<config, messages, runs>>

\* A rerun without input (page load, rerun from the menu)
Rerun(s) ==
    /\ pc[s] = "idle"
    /\ \E ok \in BOOLEAN : Script(s, FALSE, NoPrompt, ok)

\* The "Reset chat" button of the sidebar (lines 92-94)
Reset(s) ==
    /\ pc[s] = "idle"
    /\ screen[s] \in {"chat", "thread_error"}
    /\ \E ok \in BOOLEAN : Script(s, TRUE, NoPrompt, ok)

\* A value entered into st.chat_input (lines 155-164)
Submit(s, q) ==
    /\ pc[s] = "idle"
    /\ screen[s] = "chat"
    /\ asked < MaxQuestions
    /\ q \in {NoPrompt, QuestionTexts[asked + 1]}
    /\ \E ok \in BOOLEAN : Script(s, FALSE, q, ok)

----------------------------------------------------------------------------
(* ask_assistant (lines 122-145) and the end of the script (lines 165-167) *)

\* Mutant of Finish: the answer is displayed but not appended to the history
Finish_NotAppended(s, ans) ==
    /\ answer' = [answer EXCEPT ![s] = ans]
    /\ history' = history
    /\ pc' = [pc EXCEPT ![s] = "idle"]

\* Mutant of Finish: the history is one list of the server process, shared by
\* the sessions, instead of an entry of the session state
Finish_SharedHistory(s, ans) ==
    /\ answer' = [answer EXCEPT ![s] = ans]
    /\ history' = [o \in Sessions |->
                      IF history[o] = Absent THEN Absent
                      ELSE Append(history[o], <<"assistant", ans>>)]
    /\ pc' = [pc EXCEPT ![s] = "idle"]

\* ask_assistant returns ans: it is displayed and appended to the history
Finish(s, ans) ==
    /\ answer' = [answer EXCEPT ![s] = ans]
    /\ history' = [history EXCEPT ![s] = Append(history[s], <<"assistant", ans>>)]
    /\ pc' = [pc EXCEPT ![s] = "idle"]

\* Mutant of Caught: the exception of list-messages is raised outside the try
\* block and ends the script run
Caught_ListOutsideTry(s, call, e) ==
    /\ fault' = [fault EXCEPT ![s] = [call |-> call, error |-> e]]
    /\ IF call = "list_messages"
       THEN /\ pc' = [pc EXCEPT ![s] = "crashed"]
            /\ UNCHANGED <<answer, history>>
       ELSE Finish(s, TransportErrorText(e))

\* Mutant of Caught: the first remote call that raises is followed by a second
\* attempt of the whole exchange instead of the error string
Caught_RetriesOnce(s, call, e) ==
    /\ fault' = [fault EXCEPT ![s] = [call |-> call, error |-> e]]
    /\ IF fault[s] = NoFault
       THEN /\ pc' = [pc EXCEPT ![s] = "create_message"]
            /\ UNCHANGED <<answer, history>>
       ELSE Finish(s, TransportErrorText(e))

\* Mutant of Caught: the error string is displayed but the cycle that raised
\* leaves no assistant entry in the history
Caught_NotRecorded(s, call, e) ==
    /\ fault' = [fault EXCEPT ![s] = [call |-> call, error |-> e]]
    /\ answer' = [answer EXCEPT ![s] = TransportErrorText(e)]
    /\ history' = history
    /\ pc' = [pc EXCEPT ![s] = "idle"]

\* A remote call raises e: except Exception as e (lines 144-145)
Caught(s, call, e) ==
    /\ fault' = [fault EXCEPT ![s] = [call |-> call, error |-> e]]
    /\ Finish(s, TransportErrorText(e))

\* The statuses seen so far, a status polled again merged with the one before
Seen(seq, st) ==
    IF seq # <<>> /\ seq[Len(seq)] = st THEN seq ELSE Append(seq, st)

\* A remote call of ask_assistant: its name, the thread_id and the run_id it
\* is given
Call(name, t, r) == [call |-> name, thread |-> t, run |-> r]

\* client.beta.threads.messages.create (line 125)
CreateMessage(s) ==
    /\ pc[s] = "create_message"
    /\ LET t == thread_id[s] IN
       /\ used' = [used EXCEPT ![s] = @ \cup {t}]
       /\ calls' = [calls EXCEPT ![s] = Append(@, Call("create_message", t, NoRun))]
       /\ \/ /\ messages' = [messages EXCEPT ![t] =
                                Append(@, Message("user", <<Text(prompt[s])>>))]
             /\ pc' = [pc EXCEPT ![s] = "create_run"]
             /\ UNCHANGED <<answer, history, fault>>
          \/ /\ \E e \in Errors : Caught(s, "create_message", e)
             /\ UNCHANGED messages
    /\ UNCHANGED <<config, thread_id, prompt, cycle, screen, before, ncreate,
                   nthreads, runs, asked>>

\* client.beta.threads.runs.create (lines 128-132)
CreateRun(s) ==
    /\ pc[s] = "create_run"
    /\ LET t == thread_id[s] IN
       /\ used' = [used EXCEPT ![s] = @ \cup {t}]
       /\ calls' = [calls EXCEPT ![s] = Append(@, Call("create_run", t, NoRun))]
       /\ \/ /\ runs' = Append(runs, [thread |-> t, status |-> "queued"])
             /\ run' = [run EXCEPT ![s] = Len(runs) + 1]
             /\ pc' = [pc EXCEPT ![s] = "poll"]
             /\ UNCHANGED <<answer, history, fault>>
          \/ /\ \E e \in Errors : Caught(s, "create_run", e)
             /\ UNCHANGED <<runs, run>>
    /\ UNCHANGED <<config, thread_id, prompt, polled, listing, screen,
                   before, ncreate, nthreads, messages, asked>>

\* Mutant of AfterStatus: "expired" is missing from the failure statuses
AfterStatus_ExpiredPolledAgain(s, st) ==
    IF st = "completed"
    THEN /\ pc' = [pc EXCEPT ![s] = "list"]
         /\ UNCHANGED <<answer, history>>
    ELSE IF st \in {"failed", "cancelled"}
         THEN Finish(s, RunFailureText(st))
         ELSE /\ pc' = [pc EXCEPT ![s] = "poll"]
              /\ UNCHANGED <<answer, history>>

\* Mutant of AfterStatus: the loop is left as soon as the run is not queued
AfterStatus_LeavesWhenStarted(s, st) ==
    IF st \in {"completed", "in_progress"}
    THEN /\ pc' = [pc EXCEPT ![s] = "list"]
         /\ UNCHANGED <<answer, history>>
    ELSE IF st \in {"failed", "cancelled", "expired"}
         THEN Finish(s, RunFailureText(st))
         ELSE /\ pc' = [pc EXCEPT ![s] = "poll"]
              /\ UNCHANGED <<answer, history>>

\* Mutant of AfterStatus: the reply is extracted after a failure status too
AfterStatus_RepliesAfterFailure(s, st) ==
    IF st \in {"completed", "failed", "cancelled", "expired"}
    THEN /\ pc' = [pc EXCEPT ![s] = "list"]
         /\ UNCHANGED <<answer, history>>
    ELSE /\ pc' = [pc EXCEPT ![s] = "poll"]
         /\ UNCHANGED <<answer, history>>

\* Mutant of AfterStatus: "cancelled" is missing from the failure statuses
AfterStatus_CancelledPolledAgain(s, st) ==
    IF st = "completed"
    THEN /\ pc' = [pc EXCEPT ![s] = "list"]
         /\ UNCHANGED <<answer, history>>
    ELSE IF st \in {"failed", "expired"}
         THEN Finish(s, RunFailureText(st))
         ELSE /\ pc' = [pc EXCEPT ![s] = "poll"]
              /\ UNCHANGED <<answer, history>>

\* The status checks of the poll loop (lines 137-141)
AfterStatus(s, st) ==
    IF st = "completed"
    THEN /\ pc' = [pc EXCEPT ![s] = "list"]
         /\ UNCHANGED <<answer, history>>
    ELSE IF st \in {"failed", "cancelled", "expired"}
         THEN Finish(s, RunFailureText(st))
         ELSE /\ pc' = [pc EXCEPT ![s] = "poll"]
              /\ UNCHANGED <<answer, history>>

\* One iteration of the poll loop (lines 135-141)
RetrieveRun(s) ==
    /\ pc[s] = "poll"
    /\ calls' = [calls EXCEPT ![s] =
                    Seen(@, Call("retrieve_run", thread_id[s], run[s]))]
    /\ \/ LET st == runs[run[s]].status IN
          /\ polled' = [polled EXCEPT ![s] = Seen(@, st)]
          /\ AfterStatus(s, st)
          /\ UNCHANGED fault
       \/ /\ \E e \in Errors : Caught(s, "retrieve_run", e)
          /\ UNCHANGED polled
    /\ UNCHANGED <<config, thread_id, prompt, run, listing, screen, before,
                   ncreate, used, remote, asked>>

\* latest_assistant_reply called from line 143 (lines 106-120)
ListMessages(s) ==
    /\ pc[s] = "list"
    /\ calls' = [calls EXCEPT ![s] =
                    Append(@, Call("list_messages", thread_id[s], NoRun))]
    /\ \/ LET msgs == MessagesList(thread_id[s]) IN
          /\ listing' = [listing EXCEPT ![s] = msgs]
          /\ Finish(s, latest_assistant_reply(msgs))
          /\ UNCHANGED fault
       \/ /\ \E e \in Errors : Caught(s, "list_messages", e)
          /\ UNCHANGED listing
    /\ UNCHANGED <<config, thread_id, prompt, run, polled, screen,
                   before, ncreate, used, remote, asked>>

----------------------------------------------------------------------------
(* The remote service's own steps *)

NoMessage == <<>>

\* A run changes status; a run that ends from "in_progress" may have added one
\* assistant message to its thread while it was in progress
RunStep(r) ==
    /\ r \in 1..Len(runs)
    /\ \E st \in NextStatus(runs[r].status) :
          /\ runs' = [runs EXCEPT ![r].status = st]
          /\ \E c \in ContentShapes \cup {NoMessage} :
                /\ c # NoMessage =>
                      runs[r].status = "in_progress" /\ RemoteTerminal(st)
                /\ messages' = IF c = NoMessage THEN messages
                               ELSE [messages EXCEPT ![runs[r].thread] =
                                        Append(@, Message("assistant", c))]
    /\ UNCHANGED <<config, thread_id, history, pc, prompt, cycle, answer,
                   screen, before, fault, calls, ncreate, used, nthreads,
                   asked>>

----------------------------------------------------------------------------

Next ==
    \/ \E s \in Sessions : Rerun(s)
    \/ \E s \in Sessions : Reset(s)
    \/ \E s \in Sessions : \E q \in Questions \cup {NoPrompt} : Submit(s, q)
    \/ \E s \in Sessions : CreateMessage(s)
    \/ \E s \in Sessions : CreateRun(s)
    \/ \E s \in Sessions : RetrieveRun(s)
    \/ \E s \in Sessions : ListMessages(s)
    \/ \E r \in 1..MaxQuestions : RunStep(r)

Spec == Init /\ [][Next]_vars

\* A retrieve-run that returns (lines 136-141)
Polls(s) == RetrieveRun(s) /\ fault'[s] = fault[s]

\* The script run is one thread of sequential statements: a remote call that
\* can be made is made, and the loop of lines 135-141 retrieves the run again
\* after each sleep.  Nothing obliges the remote service to move a run on or
\* a call to raise.
Fairness ==
    \A s \in Sessions :
        /\ WF_vars(CreateMessage(s))
        /\ WF_vars(CreateRun(s))
        /\ WF_vars(Polls(s))
        /\ WF_vars(ListMessages(s))

SpecLive == Spec /\ Fairness

----------------------------------------------------------------------------
(* Properties *)

Last(seq) == seq[Len(seq)]

Contains(seq, x) == \E i \in 1..Len(seq) : seq[i] = x

IsPrefix(a, b) == Len(a) <= Len(b) /\ SubSeq(b, 1, Len(a)) = a

\* ask_assistant has returned for the latest question of session s
Returned(s) == pc[s] = "idle" /\ answer[s] # None

\* The latest question of s was handled without a failing remote call and
\* its run was reported completed
Succeeded(s) ==
    /\ Returned(s)
    /\ fault[s] = NoFault
    /\ polled[s] # <<>>
    /\ Last(polled[s]) = "completed"

\* The text values of the assistant messages of thread t
AssistantAuthored(t) ==
    UNION { {m.content[i].value : i \in {j \in 1..Len(m.content) :
                                            m.content[j].type = "text"}} :
            m \in {messages[t][k] : k \in {n \in 1..Len(messages[t]) :
                                            messages[t][n].role = "assistant"}} }

\* C1: after a relay cycle in which no remote call failed and the run was
\* reported completed, the history is the history before the cycle followed
\* by (user, question) and (assistant, reply): two entries more, none changed.
C1_HistoryGrowsByTwo ==
    \A s \in Sessions :
        Succeeded(s) =>
            /\ prompt[s] # NoPrompt
            /\ history[s] = before[s] \o << <<"user", <<prompt[s]>> >>,
                                           <<"assistant", answer[s]>> >>
            /\ Len(history[s]) = Len(before[s]) + 2
            /\ IsPrefix(before[s], history[s])

\* A second question answered with assistant text, after an answered first
C1_Witness ==
    \E s \in Sessions :
        /\ Succeeded(s)
        /\ Len(before[s]) = 2
        /\ answer[s] = <<"a", Separator, "b">>

\* C2: when one of the four remote calls of a relay cycle raises, the cycle
\* ends in Idle with the transport-error string returned and displayed (no
\* exception leaves ask_assistant), and its prefix is not the run-failure one.
C2_TransportErrorReturned ==
    \A s \in Sessions :
        fault[s] # NoFault =>
            /\ fault[s].call \in {"create_message", "create_run",
                                  "retrieve_run", "list_messages"}
            /\ pc[s] = "idle"
            /\ screen[s] = "chat"
            /\ answer[s] = <<TransportPrefix, fault[s].error, "'">>
            /\ Last(history[s]) = <<"assistant", answer[s]>>
            /\ answer[s][1] # RunFailurePrefix
            /\ \A st \in Statuses : answer[s] # RunFailureText(st)

\* retrieve-run raises on a later iteration of the poll loop
C2_Witness ==
    \E s \in Sessions :
        /\ fault[s].call = "retrieve_run"
        /\ polled[s] = <<"queued", "in_progress">>
        /\ pc[s] = "idle"

\* C3: when the statuses reported for the run end in failed, cancelled or
\* expired, ask_assistant returns a string that contains that status token
\* and no assistant-authored text, and list-messages is not called.
C3_RunFailureReported ==
    \A s \in Sessions :
        (polled[s] # <<>> /\ Last(polled[s]) \in {"failed", "cancelled", "expired"}) =>
            /\ pc[s] = "idle"
            /\ answer[s] # None
            /\ Contains(answer[s], Last(polled[s]))
            /\ answer[s][1] = RunFailurePrefix
            /\ \A i \in 1..Len(answer[s]) :
                  answer[s][i] \notin AssistantAuthored(thread_id[s])
            /\ listing[s] = NotListed
            /\ fault[s] = NoFault
            /\ Last(history[s]) = <<"assistant", answer[s]>>

\* The run expired after two non-terminal reports, having added a text message
C3_Witness ==
    \E s \in Sessions :
        /\ polled[s] = <<"queued", "in_progress", "expired">>
        /\ answer[s] = RunFailureText("expired")
        /\ "a" \in AssistantAuthored(thread_id[s])

\* C4: with no failing call, the poll loop is left only on "completed", every
\* status reported before it was a non-terminal one polled again, and
\* ask_assistant returns the text latest_assistant_reply extracts, which is
\* neither error string.
C4_PollsUntilCompleted ==
    \A s \in Sessions :
        /\ pc[s] = "list" =>
              /\ polled[s] # <<>>
              /\ Last(polled[s]) = "completed"
              /\ \A i \in 1..(Len(polled[s]) - 1) :
                    polled[s][i] \notin {"completed", "failed", "cancelled", "expired"}
              /\ run[s] \in 1..Len(runs)
              /\ runs[run[s]].status = "completed"
        /\ Succeeded(s) =>
              /\ listing[s] # NotListed
              /\ answer[s] = latest_assistant_reply(listing[s])
              /\ answer[s][1] \notin {TransportPrefix, RunFailurePrefix}

\* The run reported queued, in_progress, completed: three polls, text returned
C4_Witness ==
    \E s \in Sessions :
        /\ Succeeded(s)
        /\ polled[s] = <<"queued", "in_progress", "completed">>
        /\ answer[s] = <<"a", Separator, "b">>

----------------------------------------------------------------------------
(* Reply extraction on any listing the remote service may return: session 1 *)
(* is about to call list-messages for its first question                   *)

MaxListed == 3

MessageShapes ==
    {Message("user", <<Text("q1")>>)} \cup
    {Message("assistant", c) :
        c \in ContentShapes \cup {<<>>, <<Text("a")>>}}

RECURSIVE SeqsUpTo(_, _)
SeqsUpTo(S, n) ==
    IF n = 0 THEN {<<>>}
    ELSE LET shorter == SeqsUpTo(S, n - 1)
         IN  shorter \cup {Append(q, x) : q \in shorter, x \in S}

InitReply ==
    /\ \E c \in Configs : secrets = c.secrets /\ environ = c.environ
    /\ ConfigOk
    /\ thread_id = [s \in Sessions |-> IF s = 1 THEN 1 ELSE NoThread]
    /\ history = [s \in Sessions |->
                     IF s = 1 THEN << <<"user", <<"q1">> >> >> ELSE Absent]
    /\ pc = [s \in Sessions |-> IF s = 1 THEN "list" ELSE "closed"]
    /\ prompt = [s \in Sessions |-> IF s = 1 THEN "q1" ELSE NoPrompt]
    /\ run = [s \in Sessions |-> IF s = 1 THEN 1 ELSE NoRun]
    /\ polled = [s \in Sessions |-> IF s = 1 THEN <<"completed">> ELSE <<>>]
    /\ answer = [s \in Sessions |-> None]
    /\ screen = [s \in Sessions |-> IF s = 1 THEN "chat" ELSE "blank"]
    /\ listing = [s \in Sessions |-> NotListed]
    /\ before = [s \in Sessions |-> IF s = 1 THEN <<>> ELSE Absent]
    /\ fault = [s \in Sessions |-> NoFault]
    /\ calls = [s \in Sessions |->
                   IF s = 1 THEN <<Call("create_message", 1, NoRun),
                                   Call("create_run", 1, NoRun),
                                   Call("retrieve_run", 1, 1)>>
                   ELSE <<>>]
    /\ ncreate = [s \in Sessions |-> IF s = 1 THEN 1 ELSE 0]
    /\ used = [s \in Sessions |-> IF s = 1 THEN {1} ELSE {}]
    /\ nthreads = 1
    /\ \E ms \in SeqsUpTo(MessageShapes, MaxListed) :
          messages = [t \in 1..MaxThreads |-> IF t = 1 THEN ms ELSE <<>>]
    /\ runs = <<[thread |-> 1, status |-> "completed"]>>
    /\ asked = 1

NextReply == \E s \in Sessions : ListMessages(s)

SpecReply == InitReply /\ [][NextReply]_vars

----------------------------------------------------------------------------

HasAssistant(msgs) == \E i \in 1..Len(msgs) : msgs[i].role = "assistant"

\* The first assistant message of a listing that has one
NewestAssistant(msgs) ==
    msgs[CHOOSE i \in 1..Len(msgs) :
            /\ msgs[i].role = "assistant"
            /\ \A j \in 1..(i - 1) : msgs[j].role # "assistant"]

\* C5: for a listing with an assistant message the reply is made of the text
\* parts of the newest assistant message only, whatever its shape: their
\* join, or (read in the claim's favour) the sentinel when it has no text
\* part; never the text of an older assistant message.
C5_NewestAssistantOnly ==
    \A s \in Sessions :
        (listing[s] # NotListed /\ HasAssistant(listing[s])) =>
            LET parts == TextParts(NewestAssistant(listing[s]).content)
            IN  \/ answer[s] = Join(parts)
                \/ parts = <<>> /\ answer[s] = NoReply

\* C6: when the listing holds no assistant message, the cycle whose run
\* completed returns the fixed sentinel: not an empty string, no exception.
C6_SentinelWithoutAssistant ==
    \A s \in Sessions :
        (listing[s] # NotListed /\ ~HasAssistant(listing[s])) =>
            /\ pc[s] = "idle"
            /\ answer[s] = <<"No reply received - please try again.">>
            /\ answer[s] # <<>>
            /\ fault[s] = NoFault
            /\ Last(history[s]) = <<"assistant", answer[s]>>

\* The empty listing
C6_Witness ==
    \E s \in Sessions :
        /\ listing[s] = <<>>
        /\ pc[s] = "idle"
        /\ answer[s] = NoReply

----------------------------------------------------------------------------

\* C7 as stated: create-thread is called at most once per session lifetime
\* and every message and run of the session uses the session's thread_id.
C7_CreateThreadCalledOnce ==
    \A s \in Sessions :
        /\ ncreate[s] <= 1
        /\ used[s] \subseteq {thread_id[s]}

\* C7 as amended: once a session holds a thread_id, no later script run
\* (other than a reset) calls create-thread or changes thread_id, the history
\* is only appended to, and every message and run uses that thread_id;
\* create-thread is called again only while no thread_id is held.
C7_EnsureThreadIdempotent ==
    /\ [](\A s \in Sessions :
            /\ used[s] \subseteq {thread_id[s]}
            /\ thread_id[s] = NoThread => used[s] = {}
            /\ thread_id[s] # NoThread => ncreate[s] >= 1)
    /\ [][\A s \in Sessions :
            (thread_id[s] # NoThread /\ ~Reset(s)) =>
                /\ thread_id'[s] = thread_id[s]
                /\ ncreate'[s] = ncreate[s]
                /\ IsPrefix(history[s], history'[s])]_vars

\* The second question of a session whose first create-thread call failed
\* is posted to the thread of the first one
C7_Witness ==
    \E s \in Sessions :
        /\ ncreate[s] = 2
        /\ thread_id[s] # NoThread
        /\ Len(history[s]) = 3
        /\ pc[s] = "create_run"
        /\ Len(messages[thread_id[s]]) >= 2

\* The values the claim reads: what the first truthy source holds
RawValue(name) ==
    IF secrets[name] # None /\ secrets[name] # <<>>
    THEN secrets[name] ELSE environ[name]

Blank(v) == v = None \/ \A i \in 1..Len(v) : v[i] \in {" ", "\t", "\n"}

ProjectScopedValue(v) ==
    /\ v # None
    /\ \E i \in 1..Len(v) :
          /\ \A j \in 1..(i - 1) : v[j] \in {" ", "\t", "\n"}
          /\ Len(v) >= i + 9
          /\ SubSeq(v, i, i + 9) =
                <<"a", "s", "s", "t", "_", "p", "r", "o", "j", "_">>

BadConfiguration ==
    \/ Blank(RawValue("OPENAI_API_KEY"))
    \/ Blank(RawValue("ASSISTANT_ID"))
    \/ ProjectScopedValue(RawValue("ASSISTANT_ID"))

\* C8: with OPENAI_API_KEY or ASSISTANT_ID missing (absent, empty, blank) or
\* ASSISTANT_ID project-scoped, a script run shows the configuration error
\* and stops: no remote call, no session state, no question submitted.
C8_ConfigurationGuard ==
    BadConfiguration =>
        /\ nthreads = 0
        /\ runs = <<>>
        /\ asked = 0
        /\ \A t \in 1..MaxThreads : messages[t] = <<>>
        /\ \A s \in Sessions :
              /\ thread_id[s] = NoThread
              /\ history[s] = Absent
              /\ ncreate[s] = 0
              /\ used[s] = {}
              /\ pc[s] \in {"idle", "closed"}
              /\ screen[s] \in {"blank", "config_error"}
              /\ prompt[s] = NoPrompt

\* A blank key in the secrets hides the key of the environment: error shown
C8_Witness ==
    /\ secrets["OPENAI_API_KEY"] = <<" ", " ">>
    /\ environ["OPENAI_API_KEY"] = KeyGood
    /\ \E s \in Sessions : screen[s] = "config_error"

ActiveRuns(t) ==
    {r \in 1..Len(runs) :
        runs[r].thread = t /\ runs[r].status \notin
            {"completed", "failed", "cancelled", "expired"}}

\* C9: in every reachable state at most one run the relay started on a
\* thread is in a non-terminal status.
C9_OneActiveRun ==
    \A t \in 1..MaxThreads : Cardinality(ActiveRuns(t)) <= 1

\* The latest question of s ended in a run failure or a transport error
FailedCycle(s) ==
    /\ Returned(s)
    /\ \/ fault[s] # NoFault
       \/ polled[s] # <<>> /\ Last(polled[s]) \in {"failed", "cancelled", "expired"}

\* C10: a cycle that ends in a run failure or a transport error leaves
\* thread_id as it was and the session usable: the next question is
\* accepted and posted to the same thread, with no create-thread call.
C10_UsableAfterFailure ==
    /\ [](\A s \in Sessions :
            FailedCycle(s) =>
                /\ thread_id[s] # NoThread
                /\ used[s] = {thread_id[s]}
                /\ screen[s] = "chat"
                /\ asked < MaxQuestions =>
                      ENABLED Submit(s, QuestionTexts[asked + 1]))
    /\ [][\A s \in Sessions :
            /\ pc[s] \notin {"idle", "closed"} =>
                  thread_id'[s] = thread_id[s] /\ ncreate'[s] = ncreate[s]
            /\ (FailedCycle(s) /\ \E q \in Questions : Submit(s, q)) =>
                  /\ pc'[s] = "create_message"
                  /\ thread_id'[s] = thread_id[s]
                  /\ ncreate'[s] = ncreate[s]
                  /\ history'[s] = Append(history[s], <<"user", <<prompt'[s]>> >>)
            /\ (pc[s] = "create_message" /\ pc'[s] = "create_run") =>
                  messages'[thread_id[s]] =
                      Append(messages[thread_id[s]],
                             Message("user", <<Text(prompt[s])>>))]_vars

\* After a failed run, the next question was posted to the same thread
C10_Witness ==
    \E s \in Sessions :
        /\ Len(history[s]) = 3
        /\ history[s][2] = <<"assistant", RunFailureText("failed")>>
        /\ pc[s] = "create_run"
        /\ ncreate[s] = 1
        /\ Len(messages[thread_id[s]]) >= 2
        /\ messages[thread_id[s]][1].content[1].value = "q1"

----------------------------------------------------------------------------

\* The position, in a newest-first listing, of the user message that holds
\* question q (past the end when the listing does not hold it)
QuestionIndex(msgs, q) ==
    IF \E i \in 1..Len(msgs) : msgs[i] = Message("user", <<Text(q)>>)
    THEN CHOOSE i \in 1..Len(msgs) : msgs[i] = Message("user", <<Text(q)>>)
    ELSE Len(msgs) + 1

\* C11: the reply returned for a question is never an old answer: it is the
\* sentinel or the text of an assistant message that is newer than the
\* question's own user message in the thread.
C11_NeverOldAnswer ==
    \A s \in Sessions :
        (Succeeded(s) /\ listing[s] # NotListed) =>
            \/ answer[s] = NoReply
            \/ \E i \in 1..(QuestionIndex(listing[s], prompt[s]) - 1) :
                  /\ listing[s][i].role = "assistant"
                  /\ answer[s] = Join(TextParts(listing[s][i].content))

----------------------------------------------------------------------------

\* The number of calls named name among the calls of a cycle
Count(seq, name) == Cardinality({i \in 1..Len(seq) : seq[i].call = name})

\* The user messages of all threads, and the number of them
UserMessages ==
    {<<t, i>> \in (1..MaxThreads) \X (1..(MaxQuestions + 1)) :
        i <= Len(messages[t]) /\ messages[t][i].role = "user"}

\* C12: no retry.  For each submitted question at most one create-message
\* and at most one create-run call are made; a run-failure status or a raised
\* remote call ends the cycle at once with the error string and the session
\* idle, with no further call; and while the session is idle and no question
\* is submitted no message and no run is created.
C12_NoRetry ==
    /\ [](\A s \in Sessions :
            /\ Count(calls[s], "create_message") <= 1
            /\ Count(calls[s], "create_run") <= 1)
    /\ [][\A s \in Sessions :
            /\ (fault'[s] # fault[s] /\ fault'[s] # NoFault) =>
                  /\ pc'[s] = "idle"
                  /\ answer'[s] = TransportErrorText(fault'[s].error)
                  /\ Last(calls'[s]).call = fault'[s].call
            /\ (/\ pc[s] = "poll"
                /\ polled'[s] # <<>>
                /\ Last(polled'[s]) \in {"failed", "cancelled", "expired"}) =>
                  /\ pc'[s] = "idle"
                  /\ answer'[s] = RunFailureText(Last(polled'[s]))
                  /\ Last(calls'[s]).call = "retrieve_run"
            /\ (pc[s] = "idle" /\ asked' = asked) =>
                  /\ pc'[s] = "idle"
                  /\ calls'[s] \in {calls[s], <<>>}
                  /\ Len(runs') = Len(runs)
                  /\ UserMessages' = UserMessages]_vars

\* A cycle that ended with a raised retrieve-run: one create-message, one
\* create-run, the error string appended and the session idle again
C12_Witness ==
    \E s \in Sessions :
        /\ FailedCycle(s)
        /\ fault[s].call = "retrieve_run"
        /\ Count(calls[s], "create_message") = 1
        /\ Count(calls[s], "create_run") = 1
        /\ Len(history[s]) = 2
        /\ Len(runs) = 1

----------------------------------------------------------------------------

\* The names of the calls of a cycle, in order
Names(seq) == [i \in 1..Len(seq) |-> seq[i].call]

\* The one order of remote calls of a relay cycle
CallOrder == <<"create_message", "create_run", "retrieve_run", "list_messages">>

\* The calls made when the script run is at each position
CallsAt(p) ==
    CASE p = "create_message" -> 0
      [] p = "create_run" -> 1
      [] p = "poll" -> 2
      [] p = "list" -> 3

\* The positions a script run may move to from position p
Successors(p) ==
    CASE p = "idle" -> {"create_message"}
      [] p = "create_message" -> {"create_run", "idle"}
      [] p = "create_run" -> {"poll", "idle"}
      [] p = "poll" -> {"list", "idle"}
      [] p = "list" -> {"idle"}
      [] OTHER -> {}

\* C13: a relay cycle follows Idle, Submitted, Running, Completed or Failed,
\* Idle.  Create-message precedes create-run, create-run precedes the first
\* retrieve-run, list-messages is called only after a retrieve-run returned
\* "completed", a failure status ends the cycle without reply extraction, and
\* no other order of remote calls occurs.
C13_CallOrder ==
    /\ [](\A s \in Sessions :
            /\ IsPrefix(Names(calls[s]), CallOrder)
            /\ pc[s] \in {"create_message", "create_run", "list"} =>
                  Len(calls[s]) = CallsAt(pc[s])
            /\ pc[s] = "poll" => Len(calls[s]) \in {2, 3}
            /\ Contains(Names(calls[s]), "list_messages") =>
                  polled[s] # <<>> /\ Last(polled[s]) = "completed"
            /\ (polled[s] # <<>> /\ Last(polled[s]) \in {"failed", "cancelled", "expired"}) =>
                  /\ pc[s] = "idle"
                  /\ listing[s] = NotListed
                  /\ ~Contains(Names(calls[s]), "list_messages")
            /\ pc[s] = "list" => Last(polled[s]) = "completed")
    /\ [][\A s \in Sessions :
            /\ pc'[s] \in Successors(pc[s]) \cup {pc[s]}
            /\ (pc[s] = "poll" /\ pc'[s] = "list") => Last(polled'[s]) = "completed"
            /\ (pc[s] = "idle" /\ pc'[s] = "create_message") =>
                  calls'[s] = <<>> /\ asked' = asked + 1]_vars

\* A cycle that made the four calls, in order, and is idle again
C13_Witness ==
    \E s \in Sessions :
        /\ pc[s] = "idle"
        /\ Names(calls[s]) = CallOrder
        /\ fault[s] = NoFault
        /\ Len(polled[s]) >= 2

----------------------------------------------------------------------------

\* The four statuses on which the poll loop is left
LoopExit == {"completed", "failed", "cancelled", "expired"}

\* The script run of s is inside ask_assistant
InCycle(s) == pc[s] \in {"create_message", "create_run", "poll", "list"}

\* The run of the current question of s has one of the four statuses
RunEnded(s) == run[s] # NoRun /\ runs[run[s]].status \in LoopExit

\* C14: the poll loop is left only when retrieve-run returned completed,
\* failed, cancelled or expired, or when the call raised; it has no bound on
\* attempts.  A cycle whose calls before the loop are made and whose run has
\* one of the four statuses returns to Idle; while the run has any other
\* status and no call raises the cycle stays in the loop.
C14_PollLoop ==
    /\ [][\A s \in Sessions :
            (pc[s] = "poll" /\ pc'[s] # "poll") =>
                \/ fault'[s] # NoFault /\ pc'[s] = "idle"
                \/ /\ fault'[s] = NoFault
                   /\ runs[run[s]].status \in LoopExit
                   /\ Last(polled'[s]) = runs[run[s]].status]_vars
    /\ \A s \in Sessions :
          /\ (pc[s] \in {"create_message", "create_run"}) ~> (pc[s] \in {"poll", "idle"})
          /\ (InCycle(s) /\ RunEnded(s)) ~> (pc[s] = "idle")

\* The loop has polled a run that waits for a tool output and is still in it
C14_Witness ==
    \E s \in Sessions :
        /\ pc[s] = "poll"
        /\ polled[s] # <<>>
        /\ Last(polled[s]) = "requires_action"
        /\ runs[run[s]].status = "requires_action"
        /\ fault[s] = NoFault

----------------------------------------------------------------------------

\* The runs of thread t
RunsOf(t) == {r \in 1..Len(runs) : runs[r].thread = t}

\* The user messages of thread t
UserMessagesOf(t) == {i \in 1..Len(messages[t]) : messages[t][i].role = "user"}

\* No session holds thread t
Dropped(t) == \A s \in Sessions : thread_id[s] # t

\* What a reset does to the session and the remote service, the outcome of
\* the create-thread call of the rerun apart
ResetEffect(s) ==
    /\ runs' = runs
    /\ messages' = messages
    /\ used'[s] = {}
    /\ calls'[s] = <<>>
    /\ pc'[s] = "idle"

\* C15 as stated: the reset makes no remote call on runs or threads and the
\* rerun that follows creates a new thread with an empty history.
C15_ResetCreatesThread ==
    [][\A s \in Sessions :
          Reset(s) =>
              /\ ResetEffect(s)
              /\ thread_id'[s] = nthreads + 1
              /\ nthreads' = nthreads + 1
              /\ history'[s] = <<>>]_vars

\* C15 as amended: the reset changes no run and no message and deletes no
\* thread; the rerun that follows calls create-thread, and the session holds
\* a new thread with an empty history when the call succeeds and neither
\* thread_id nor history when it raises.  Every call of the session names the
\* thread_id it holds, a thread_id is always a fresh one, and no user message
\* and no run is added to a thread that no session holds.
C15_ResetClearsLocally ==
    /\ [][\A s \in Sessions :
            Reset(s) =>
                /\ ResetEffect(s)
                /\ \/ /\ thread_id'[s] = nthreads + 1
                      /\ nthreads' = nthreads + 1
                      /\ history'[s] = <<>>
                      /\ screen'[s] = "chat"
                   \/ /\ thread_id'[s] = NoThread
                      /\ nthreads' = nthreads
                      /\ history'[s] = Absent
                      /\ screen'[s] = "thread_error"]_vars
    /\ [](\A s \in Sessions :
            /\ used[s] \subseteq {thread_id[s]}
            /\ \A i \in 1..Len(calls[s]) : calls[s][i].thread = thread_id[s])
    /\ [][/\ \A s \in Sessions :
               thread_id'[s] # thread_id[s] =>
                   thread_id'[s] = NoThread \/ thread_id'[s] > nthreads
          /\ \A t \in 1..MaxThreads :
               Dropped(t) =>
                   /\ RunsOf(t)' = RunsOf(t)
                   /\ UserMessagesOf(t)' = UserMessagesOf(t)]_vars

\* After a reset the session holds a second thread with an empty history
\* while the thread it held before still has its messages and a run that
\* nobody cancelled
C15_Witness ==
    \E s \in Sessions :
        /\ thread_id[s] = 2
        /\ history[s] = <<>>
        /\ used[s] = {}
        /\ messages[1] # <<>>
        /\ \E r \in RunsOf(1) : runs[r].status \in {"queued", "in_progress"}

----------------------------------------------------------------------------
(* Two visitors.  Both sessions are open and the configuration is the good *)
(* one.  The remote service handles every run without trouble: a run goes  *)
(* from queued to in_progress to completed and adds one assistant message  *)
(* with text when it completes.  The visitors' actions are those of Spec.  *)

InitTwo ==
    /\ \E c \in Configs : secrets = c.secrets /\ environ = c.environ
    /\ ConfigOk
    /\ thread_id = [s \in Sessions |-> NoThread]
    /\ history = [s \in Sessions |-> Absent]
    /\ pc = [s \in Sessions |-> "idle"]
    /\ prompt = [s \in Sessions |-> NoPrompt]
    /\ run = [s \in Sessions |-> NoRun]
    /\ polled = [s \in Sessions |-> <<>>]
    /\ answer = [s \in Sessions |-> None]
    /\ screen = [s \in Sessions |-> "blank"]
    /\ listing = [s \in Sessions |-> NotListed]
    /\ before = [s \in Sessions |-> Absent]
    /\ fault = [s \in Sessions |-> NoFault]
    /\ calls = [s \in Sessions |-> <<>>]
    /\ ncreate = [s \in Sessions |-> 0]
    /\ used = [s \in Sessions |-> {}]
    /\ nthreads = 0
    /\ messages = [t \in 1..MaxThreads |-> <<>>]
    /\ runs = <<>>
    /\ asked = 0

\* A step of a run that the service handles without trouble
RunProceeds(r) ==
    /\ RunStep(r)
    /\ runs'[r].status \in {"in_progress", "completed"}
    /\ runs'[r].status = "completed" =>
          messages'[runs[r].thread] =
              Append(messages[runs[r].thread],
                     Message("assistant", <<Text("a"), Image, Text("b")>>))

NextTwo ==
    \/ \E s \in Sessions : Rerun(s)
    \/ \E s \in Sessions : Reset(s)
    \/ \E s \in Sessions : \E q \in Questions \cup {NoPrompt} : Submit(s, q)
    \/ \E s \in Sessions : CreateMessage(s)
    \/ \E s \in Sessions : CreateRun(s)
    \/ \E s \in Sessions : RetrieveRun(s)
    \/ \E s \in Sessions : ListMessages(s)
    \/ \E r \in 1..MaxQuestions : RunProceeds(r)

SpecTwo == InitTwo /\ [][NextTwo]_vars

\* A step of the script of session s
Acts(s) ==
    \/ Rerun(s)
    \/ Reset(s)
    \/ \E q \in Questions \cup {NoPrompt} : Submit(s, q)
    \/ CreateMessage(s)
    \/ CreateRun(s)
    \/ RetrieveRun(s)
    \/ ListMessages(s)

\* C16: sessions are isolated under every interleaving of two visitors'
\* actions.  An action of one session leaves the other session's thread_id
\* and history unchanged, two sessions never hold the same thread_id, and
\* every create-message, create-run, retrieve-run and list-messages call of
\* a session names the session's own thread and, for retrieve-run, its own
\* run.
C16_SessionsIsolated ==
    /\ [](\A s \in Sessions :
            /\ \A o \in Sessions \ {s} :
                  thread_id[s] # NoThread => thread_id[o] # thread_id[s]
            /\ used[s] \subseteq {thread_id[s]}
            /\ \A i \in 1..Len(calls[s]) :
                  /\ calls[s][i].thread = thread_id[s]
                  /\ calls[s][i].call = "retrieve_run" =>
                        /\ calls[s][i].run = run[s]
                        /\ runs[run[s]].thread = thread_id[s]
            /\ run[s] # NoRun =>
                  /\ runs[run[s]].thread = thread_id[s]
                  /\ \A o \in Sessions \ {s} : run[o] # run[s]
            /\ listing[s] # NotListed =>
                  \A i \in 1..Len(listing[s]) :
                      Contains(messages[thread_id[s]], listing[s][i]))
    /\ [][\A s \in Sessions :
            Acts(s) =>
                \A o \in Sessions \ {s} :
                    /\ thread_id'[o] = thread_id[o]
                    /\ history'[o] = history[o]
                    /\ pc'[o] = pc[o]
                    /\ answer'[o] = answer[o]]_vars

\* Both sessions are inside a relay cycle at once, each polling its own run
\* of its own thread
C16_Witness ==
    /\ pc[1] = "poll"
    /\ pc[2] = "poll"
    /\ thread_id[1] # thread_id[2]
    /\ run[1] # run[2]
    /\ polled[1] # <<>>
    /\ polled[2] # <<>>

----------------------------------------------------------------------------

\* A script run of s in which create-thread raised
EnsureThreadFails(s) ==
    /\ Rerun(s) \/ Reset(s) \/ \E q \in Questions \cup {NoPrompt} : Submit(s, q)
    /\ screen'[s] = "thread_error"

\* C17: when create-thread fails, ensure_thread reports the error and halts
\* the script run: neither thread_id nor history is set, no create-message
\* or create-run call follows in that run, and no question is accepted.  In
\* every reachable state thread_id is present exactly when history is.
C17_CreateThreadFailure ==
    /\ [](\A s \in Sessions :
            /\ thread_id[s] = NoThread <=> history[s] = Absent
            /\ screen[s] = "thread_error" =>
                  /\ thread_id[s] = NoThread
                  /\ pc[s] = "idle"
                  /\ calls[s] = <<>>
                  /\ used[s] = {}
                  /\ ncreate[s] >= 1)
    /\ [][\A s \in Sessions :
            EnsureThreadFails(s) =>
                /\ thread_id'[s] = NoThread
                /\ history'[s] = Absent
                /\ pc'[s] = "idle"
                /\ asked' = asked
                /\ UNCHANGED remote
                /\ ~Reset(s) => thread_id'[s] = thread_id[s] /\ history'[s] = history[s]]_vars

\* The first create-thread call of a session raised: the error is shown and
\* the session holds neither thread_id nor history
C17_Witness ==
    \E s \in Sessions :
        /\ screen[s] = "thread_error"
        /\ nthreads = 0
        /\ ncreate[s] = 1
        /\ history[s] = Absent

----------------------------------------------------------------------------

\* The entries of a history are user, assistant, user, assistant, ...
Alternating(h) ==
    \A i \in 1..Len(h) : h[i][1] = IF i % 2 = 1 THEN "user" ELSE "assistant"

\* C18: between resets the history is append-only and strictly alternating.
\* Every relay cycle, failed ones included, appends (user, question) and then
\* (assistant, the string ask_assistant returned); in every idle state the
\* history has even length and alternates user, assistant, and every earlier
\* history since the last reset is a prefix of the current one.
C18_HistoryAlternates ==
    /\ [](\A s \in Sessions :
            history[s] # Absent =>
                /\ Alternating(history[s])
                /\ pc[s] = "idle" => Len(history[s]) % 2 = 0
                /\ InCycle(s) =>
                      /\ Len(history[s]) % 2 = 1
                      /\ history[s] = Append(before[s], <<"user", <<prompt[s]>> >>)
                /\ Returned(s) =>
                      history[s] = before[s] \o << <<"user", <<prompt[s]>> >>,
                                                     <<"assistant", answer[s]>> >>)
    /\ [][\A s \in Sessions :
            (history[s] # Absent /\ ~Reset(s)) =>
                /\ IsPrefix(history[s], history'[s])
                /\ Len(history'[s]) <= Len(history[s]) + 1]_vars

\* Two failed cycles in a row: the history holds both questions, each
\* followed by the error string that was returned for it
C18_Witness ==
    \E s \in Sessions :
        /\ pc[s] = "idle"
        /\ Len(history[s]) = 4
        /\ history[s][2] = <<"assistant", TransportErrorText("timeout")>>
        /\ history[s][4] = <<"assistant", RunFailureText("expired")>>
        /\ history[s][1] = <<"user", <<"q1">> >>
        /\ history[s][3] = <<"user", <<"q2">> >>

====
